---- MODULE Spec2Model ----
(***************************************************************************)
(* check_md_code_blocks.py: extraction of fenced python blocks from        *)
(* Markdown files and the pyright check of the blocks that mention a       *)
(* watched module.  Text (a line, the text of a block, a module name) is a  *)
(* sequence of characters, so that strip, startswith, join and the         *)
(* substring test are computed as Python computes them.                    *)
(***************************************************************************)
EXTENDS Integers, Sequences, FiniteSets, TLC

VARIABLES
    \* extract_python_code_blocks (one call, line by line)
    lines,              \* file.readlines()
    i,                  \* the loop index of enumerate(lines), 0-based
    code_blocks,        \* list of (text, line_no) tuples
    in_code_block,
    current_block,
    pc,                 \* "idle" | "loop" | "returned"
    \* check_code_blocks (one call)
    markdown_file_paths,
    file_idx,           \* position of the outer for loop, 1-based
    file_blocks,        \* code_blocks of the file being checked
    block_idx,          \* position of the inner for loop, 1-based
    had_errors,
    files_with_errors,
    cpc,                \* "idle" | "files" | "blocks" | "returned" | "raised"
    exception,          \* the RuntimeError raised, NoException otherwise
    extracted,          \* history: file positions handed to the extractor
    pyright_calls       \* history: the subprocess.run calls and their outcome

evars == <<lines, i, code_blocks, in_code_block, current_block, pc>>
cvars == <<markdown_file_paths, file_idx, file_blocks, block_idx, had_errors,
           files_with_errors, cpc, exception, extracted, pyright_calls>>
vars == <<lines, i, code_blocks, in_code_block, current_block, pc,
          markdown_file_paths, file_idx, file_blocks, block_idx, had_errors,
          files_with_errors, cpc, exception, extracted, pyright_calls>>

(***************************************************************************)
(* Bounds                                                                  *)
(***************************************************************************)
MaxLines == 5
MaxFiles == 2

(***************************************************************************)
(* Python str operations on character sequences                            *)
(***************************************************************************)
IsSpace(c) == c \in {" ", "\n", "\t", "\r"}

RECURSIVE LStrip(_)
LStrip(s) == IF s = <<>> \/ ~IsSpace(Head(s)) THEN s ELSE LStrip(Tail(s))

RECURSIVE RStrip(_)
RStrip(s) ==
    IF s = <<>> \/ ~IsSpace(s[Len(s)]) THEN s ELSE RStrip(SubSeq(s, 1, Len(s) - 1))

\* str.strip()
Strip(s) == RStrip(LStrip(s))

\* str.startswith(prefix)
StartsWith(s, prefix) ==
    /\ Len(prefix) <= Len(s)
    /\ SubSeq(s, 1, Len(prefix)) = prefix

\* sub in s
Contains(s, sub) ==
    \E k \in 0..(Len(s) - Len(sub)) : SubSeq(s, k + 1, k + Len(sub)) = sub

\* sep.join(parts)
RECURSIVE Join(_, _)
Join(parts, sep) ==
    IF parts = <<>> THEN <<>>
    ELSE IF Len(parts) = 1 THEN parts[1]
    ELSE parts[1] \o sep \o Join(Tail(parts), sep)

(***************************************************************************)
(* Literals of the source                                                  *)
(***************************************************************************)
\* the backtick character (U+0060), which a TLA+ string literal cannot hold
BT == "U+0060"
FENCE == <<BT, BT, BT>>
FENCE_PYTHON == <<BT, BT, BT, "p", "y", "t", "h", "o", "n">>
NEWLINE == <<"\n">>

AUTOGEN_AGENTCHAT ==
    <<"a", "u", "t", "o", "g", "e", "n", "_", "a", "g", "e", "n", "t", "c", "h", "a", "t">>
AUTOGEN_CORE == <<"a", "u", "t", "o", "g", "e", "n", "_", "c", "o", "r", "e">>
AUTOGEN_EXT == <<"a", "u", "t", "o", "g", "e", "n", "_", "e", "x", "t">>
MODULES_TO_CHECK == <<AUTOGEN_AGENTCHAT, AUTOGEN_CORE, AUTOGEN_EXT>>

(***************************************************************************)
(* extract_python_code_blocks                                              *)
(***************************************************************************)
\* the locals of the scanner before the loop
ScanInit == [code_blocks |-> <<>>, in_code_block |-> FALSE, current_block |-> <<>>]

\* mutant: the start line left 0-based
ClosedBlock_ZeroBased(block, idx) == <<Join(block, NEWLINE), idx - Len(block)>>

\* the tuple appended when a block closes at 0-based index idx
ClosedBlock(block, idx) == <<Join(block, NEWLINE), idx - Len(block) + 1>>

\* first branch: the line opens a python block
OpenBranch(st) == [st EXCEPT !.in_code_block = TRUE, !.current_block = <<>>]

\* mutant: the flag is not cleared when the block closes
CloseBranch_KeepFlag(st, idx) ==
    [st EXCEPT !.code_blocks = Append(st.code_blocks, ClosedBlock(st.current_block, idx))]

\* second branch: the line closes the block
CloseBranch(st, idx) ==
    [st EXCEPT !.in_code_block = FALSE,
               !.code_blocks = Append(st.code_blocks, ClosedBlock(st.current_block, idx))]

\* mutant: the stripped line is accumulated
AccumulateBranch_Stripped(st, line) ==
    [st EXCEPT !.current_block = Append(st.current_block, Strip(line))]

\* third branch: a line inside the block
AccumulateBranch(st, line) ==
    [st EXCEPT !.current_block = Append(st.current_block, line)]

\* mutant: outside a block, a fence line of any language opens one
ScanStep_AnyFenceOpens(st, line, idx) ==
    IF StartsWith(Strip(line), FENCE) /\ ~st.in_code_block THEN OpenBranch(st)
    ELSE IF StartsWith(Strip(line), FENCE) THEN CloseBranch(st, idx)
    ELSE IF st.in_code_block THEN AccumulateBranch(st, line)
    ELSE st

\* one iteration of the for loop, on lines[idx] = line
ScanStep(st, line, idx) ==
    IF StartsWith(Strip(line), FENCE_PYTHON) THEN OpenBranch(st)
    ELSE IF StartsWith(Strip(line), FENCE) /\ st.in_code_block THEN CloseBranch(st, idx)
    ELSE IF st.in_code_block THEN AccumulateBranch(st, line)
    ELSE st

\* mutant: a block still open at the end of the input is flushed
ReturnBlocks_Flush(st, n) ==
    IF st.in_code_block
    THEN Append(st.code_blocks, ClosedBlock(st.current_block, n))
    ELSE st.code_blocks

\* the value returned once the loop over n lines has ended
ReturnBlocks(st, n) == st.code_blocks

\* the locals after the first n iterations; the locals of the iteration
\* before are bound as a value, so that every prefix is scanned once
RECURSIVE ScanPrefix(_, _)
ScanPrefix(ls, n) ==
    IF n = 0 THEN ScanInit
    ELSE CHOOSE st \in {ScanStep(prev, ls[n], n - 1) : prev \in {ScanPrefix(ls, n - 1)}} : TRUE

\* the whole call on the lines of a file
ExtractFromLines(ls) == ReturnBlocks(ScanPrefix(ls, Len(ls)), Len(ls))

(***************************************************************************)
(* Input lines of the extractor specification                              *)
(***************************************************************************)
LINE_PY == FENCE_PYTHON \o NEWLINE
LINE_PY3 == <<" ">> \o FENCE_PYTHON \o <<"3", " ", "\n">>
LINE_CLOSE == FENCE \o NEWLINE
LINE_CLOSE_EOF == FENCE
LINE_LONG == <<" ", BT, BT, BT, BT, "\n">>
LINE_JS == FENCE \o <<"j", "s", "\n">>
LINE_X == <<"x", "\n">>
LINE_Y == <<" ", "y", "\n">>

\* readlines() keeps the newline of every line; only the last line may lack it
TerminatedLines == {LINE_PY, LINE_PY3, LINE_CLOSE, LINE_LONG, LINE_JS, LINE_X, LINE_Y}
LastLines == TerminatedLines \cup {LINE_CLOSE_EOF}

LineSeqs(n) ==
    IF n = 0 THEN {<<>>}
    ELSE {ls \in [1..n -> LastLines] : \A k \in 1..(n - 1) : ls[k] \in TerminatedLines}

Inputs == UNION {LineSeqs(n) : n \in 0..MaxLines}

NoException == [type |-> "None", message |-> <<>>]

CheckerIdle ==
    /\ markdown_file_paths = <<>>
    /\ file_idx = 1
    /\ file_blocks = <<>>
    /\ block_idx = 1
    /\ had_errors = FALSE
    /\ files_with_errors = <<>>
    /\ cpc = "idle"
    /\ exception = NoException
    /\ extracted = <<>>
    /\ pyright_calls = <<>>

InitExtract ==
    /\ lines \in Inputs
    /\ i = 0
    /\ code_blocks = ScanInit.code_blocks
    /\ in_code_block = ScanInit.in_code_block
    /\ current_block = ScanInit.current_block
    /\ pc = "loop"
    /\ CheckerIdle

Locals == [code_blocks |-> code_blocks, in_code_block |-> in_code_block,
           current_block |-> current_block]

\* one iteration of the loop over enumerate(lines)
ScanLine ==
    /\ pc = "loop"
    /\ i < Len(lines)
    /\ LET st == ScanStep(Locals, lines[i + 1], i)
       IN /\ code_blocks' = st.code_blocks
          /\ in_code_block' = st.in_code_block
          /\ current_block' = st.current_block
    /\ i' = i + 1
    /\ UNCHANGED <<lines, pc>>
    /\ UNCHANGED cvars

\* the return statement
Return ==
    /\ pc = "loop"
    /\ i = Len(lines)
    /\ code_blocks' = ReturnBlocks(Locals, Len(lines))
    /\ pc' = "returned"
    /\ UNCHANGED <<lines, i, in_code_block, current_block>>
    /\ UNCHANGED cvars

NextExtract == ScanLine \/ Return

SpecExtract == InitExtract /\ [][NextExtract]_vars

(***************************************************************************)
(* check_code_blocks                                                       *)
(***************************************************************************)
LINE_AUTOGEN == <<"a", "u", "t", "o", "g", "e", "n", "\n">>
LINE_IMPORT_CORE == <<"i", "m", "p", "o", "r", "t", " ">> \o AUTOGEN_CORE \o NEWLINE
LINE_IMPORT_EXT == <<"i", "m", "p", "o", "r", "t", " ">> \o AUTOGEN_EXT \o NEWLINE
LINE_FROM_AGENTCHAT == <<"f", "r", "o", "m", " ">> \o AUTOGEN_AGENTCHAT \o <<".", "x", "\n">>

\* the Markdown files on disk
Paths == {"none.md", "ignored.md", "one.md", "two.md"}

\* open(markdown_file_path).readlines()
ReadLines(markdown_file_path) ==
    CASE markdown_file_path = "none.md" -> <<LINE_X, LINE_JS, LINE_IMPORT_CORE, LINE_CLOSE>>
      [] markdown_file_path = "ignored.md" -> <<LINE_PY, LINE_AUTOGEN, LINE_CLOSE>>
      [] markdown_file_path = "one.md" -> <<LINE_X, LINE_PY, LINE_IMPORT_CORE, LINE_CLOSE>>
      [] markdown_file_path = "two.md" ->
             <<LINE_PY, LINE_X, LINE_CLOSE,
               LINE_PY3, LINE_X, LINE_IMPORT_EXT, LINE_LONG,
               LINE_PY, LINE_FROM_AGENTCHAT, LINE_CLOSE_EOF>>

extract_python_code_blocks(markdown_file_path) ==
    ExtractFromLines(ReadLines(markdown_file_path))

PathSeqs == UNION {[1..n -> Paths] : n \in 0..MaxFiles}

\* exit statuses of pyright
ReturnCodes == {0, 1, 2}

\* mutant: the negation of the membership test is lost
NoWatchedModule_NotDropped(code_block) ==
    \A m \in 1..Len(MODULES_TO_CHECK) : Contains(code_block, MODULES_TO_CHECK[m])

\* all(module not in code_block for module in MODULES_TO_CHECK)
NoWatchedModule(code_block) ==
    \A m \in 1..Len(MODULES_TO_CHECK) : ~Contains(code_block, MODULES_TO_CHECK[m])

\* mutant: had_errors is set once, before the loop over the files
HadErrorsAtFileStart_Carried(had) == had

\* had_errors = False at the start of each file
HadErrorsAtFileStart(had) == FALSE

\* mutant: the flag follows the last block checked
RecordResult_Overwrite(had, returncode) == returncode # 0

\* had_errors after a completed pyright run
RecordResult(had, returncode) == IF returncode # 0 THEN TRUE ELSE had

\* mutant: the first failing block ends the loop over the blocks of the file
NextBlockIndex_BreakOnFail(b, returncode, n) == IF returncode # 0 THEN n + 1 ELSE b + 1

\* the inner loop goes on with the next block, whatever the exit status
NextBlockIndex(b, returncode, n) == b + 1

\* RuntimeError("Pyright missing; install it to proceed.")
MissingError ==
    [type |-> "RuntimeError", message |-> <<"Pyright missing; install it to proceed.">>]

\* mutant: the missing executable is logged and the loop goes on
HandleFileNotFound_Swallow(b) ==
    [cpc |-> "blocks", exception |-> NoException, block_idx |-> b + 1]

\* except FileNotFoundError: log and raise
HandleFileNotFound(b) ==
    [cpc |-> "raised", exception |-> MissingError, block_idx |-> b]

\* if had_errors: files_with_errors.append(markdown_file_path)
RecordFile(failed, had, markdown_file_path) ==
    IF had THEN Append(failed, markdown_file_path) ELSE failed

\* the outcome after the loop over the files; the message of the error is
\* held as the list of its lines (the heading, then the joined paths)
FinalOutcome(failed) ==
    IF failed # <<>>
    THEN [type |-> "RuntimeError",
          message |-> <<"Syntax errors found in the following files:">> \o failed]
    ELSE NoException

InitCheck ==
    /\ markdown_file_paths \in PathSeqs
    /\ file_idx = 1
    /\ file_blocks = <<>>
    /\ block_idx = 1
    /\ had_errors = FALSE
    /\ files_with_errors = <<>>
    /\ cpc = "files"
    /\ exception = NoException
    /\ extracted = <<>>
    /\ pyright_calls = <<>>
    /\ lines = <<>>
    /\ i = 0
    /\ code_blocks = <<>>
    /\ in_code_block = FALSE
    /\ current_block = <<>>
    /\ pc = "idle"

\* the head of the loop over the files: extract the blocks of the next file
NextFile ==
    /\ cpc = "files"
    /\ file_idx <= Len(markdown_file_paths)
    /\ file_blocks' = extract_python_code_blocks(markdown_file_paths[file_idx])
    /\ had_errors' = HadErrorsAtFileStart(had_errors)
    /\ block_idx' = 1
    /\ cpc' = "blocks"
    /\ extracted' = Append(extracted, file_idx)
    /\ UNCHANGED <<markdown_file_paths, file_idx, files_with_errors, exception,
                   pyright_calls>>
    /\ UNCHANGED evars

\* a block that mentions no watched module: OK[ignored], continue
IgnoreBlock ==
    /\ cpc = "blocks"
    /\ block_idx <= Len(file_blocks)
    /\ NoWatchedModule(file_blocks[block_idx][1])
    /\ block_idx' = block_idx + 1
    /\ UNCHANGED <<markdown_file_paths, file_idx, file_blocks, had_errors,
                   files_with_errors, cpc, exception, extracted, pyright_calls>>
    /\ UNCHANGED evars

\* subprocess.run(["pyright", "-"], input=code_block) completes
RunPyright ==
    /\ cpc = "blocks"
    /\ block_idx <= Len(file_blocks)
    /\ ~NoWatchedModule(file_blocks[block_idx][1])
    /\ \E returncode \in ReturnCodes :
           /\ pyright_calls' = Append(pyright_calls,
                  [file |-> file_idx, block |-> block_idx,
                   input |-> file_blocks[block_idx][1], result |-> <<returncode>>])
           /\ had_errors' = RecordResult(had_errors, returncode)
           /\ block_idx' = NextBlockIndex(block_idx, returncode, Len(file_blocks))
    /\ UNCHANGED <<markdown_file_paths, file_idx, file_blocks, files_with_errors,
                   cpc, exception, extracted>>
    /\ UNCHANGED evars

\* subprocess.run raises FileNotFoundError: pyright is not on the PATH
PyrightMissing ==
    /\ cpc = "blocks"
    /\ block_idx <= Len(file_blocks)
    /\ ~NoWatchedModule(file_blocks[block_idx][1])
    /\ pyright_calls' = Append(pyright_calls,
           [file |-> file_idx, block |-> block_idx,
            input |-> file_blocks[block_idx][1], result |-> <<>>])
    /\ LET h == HandleFileNotFound(block_idx)
       IN /\ cpc' = h.cpc
          /\ exception' = h.exception
          /\ block_idx' = h.block_idx
    /\ UNCHANGED <<markdown_file_paths, file_idx, file_blocks, had_errors,
                   files_with_errors, extracted>>
    /\ UNCHANGED evars

\* the end of the loop over the blocks of a file
EndFile ==
    /\ cpc = "blocks"
    /\ block_idx > Len(file_blocks)
    /\ files_with_errors' =
           RecordFile(files_with_errors, had_errors, markdown_file_paths[file_idx])
    /\ file_idx' = file_idx + 1
    /\ cpc' = "files"
    /\ UNCHANGED <<markdown_file_paths, file_blocks, block_idx, had_errors, exception,
                   extracted, pyright_calls>>
    /\ UNCHANGED evars

\* after the loop over the files: raise the aggregate error or return
Finish ==
    /\ cpc = "files"
    /\ file_idx > Len(markdown_file_paths)
    /\ exception' = FinalOutcome(files_with_errors)
    /\ cpc' = IF FinalOutcome(files_with_errors) = NoException THEN "returned" ELSE "raised"
    /\ UNCHANGED <<markdown_file_paths, file_idx, file_blocks, block_idx, had_errors,
                   files_with_errors, extracted, pyright_calls>>
    /\ UNCHANGED evars

NextCheck ==
    \/ NextFile
    \/ IgnoreBlock
    \/ RunPyright
    \/ PyrightMissing
    \/ EndFile
    \/ Finish

SpecCheck == InitCheck /\ [][NextCheck]_vars

\* the control flow is sequential and every pyright run is waited for: a
\* step that can be taken is taken
FairSpecCheck == InitCheck /\ [][NextCheck]_vars /\ WF_vars(NextCheck)

(***************************************************************************)
(* Vocabulary of the properties of the extractor.  Line numbers k, o, c    *)
(* are 1-based positions in the input.                                     *)
(***************************************************************************)
\* the stripped line starts with three backticks
IsFenceLine(l) == StartsWith(Strip(l), FENCE)

\* the stripped line starts with three backticks followed by python
IsPythonFenceLine(l) == StartsWith(Strip(l), FENCE_PYTHON)

NoFenceBetween(ls, a, b) == \A k \in a..b : ~IsFenceLine(ls[k])

\* line c ends a python block: the nearest fence line before it opens one
ClosesPythonBlock(ls, c) ==
    /\ IsFenceLine(ls[c])
    /\ ~IsPythonFenceLine(ls[c])
    /\ \E o \in 1..(c - 1) : IsPythonFenceLine(ls[o]) /\ NoFenceBetween(ls, o + 1, c - 1)

\* line o is a fence line that opens a block of another language (or of none)
OtherFenceOpen(ls, o) ==
    /\ IsFenceLine(ls[o])
    /\ ~IsPythonFenceLine(ls[o])
    /\ ~ClosesPythonBlock(ls, o)

\* line k lies after such an open line and before the next fence line
InOtherBlock(ls, k) ==
    \E o \in 1..(k - 1) : OtherFenceOpen(ls, o) /\ NoFenceBetween(ls, o + 1, k)

\* line k is one of the lines a returned block was joined from
LineInBlocks(ls, blocks, k) ==
    \E b \in 1..Len(blocks) : \E n \in 1..Len(ls) :
        /\ blocks[b][2] >= 1
        /\ blocks[b][2] + n - 1 <= Len(ls)
        /\ blocks[b][1] = Join(SubSeq(ls, blocks[b][2], blocks[b][2] + n - 1), NEWLINE)
        /\ k \in blocks[b][2]..(blocks[b][2] + n - 1)

\* the python fence line o is never followed by a fence line
Unterminated(ls, o) ==
    /\ IsPythonFenceLine(ls[o])
    /\ NoFenceBetween(ls, o + 1, Len(ls))

\* the last python fence line among the first n lines (0 when there is none)
LastPythonOpen(ls, n) ==
    LET opens == {o \in 1..n : IsPythonFenceLine(ls[o])}
    IN IF opens = {} THEN 0 ELSE CHOOSE o \in opens : \A q \in opens : q <= o

C2_WellFormedBlock ==
    pc = "returned" =>
        \A o \in 1..Len(lines) : \A c \in (o + 1)..Len(lines) :
            ( /\ IsPythonFenceLine(lines[o])
              /\ NoFenceBetween(lines, o + 1, c - 1)
              /\ IsFenceLine(lines[c])
              /\ ~IsPythonFenceLine(lines[c]) )
            => \E b \in 1..Len(code_blocks) :
                   code_blocks[b] = <<Join(SubSeq(lines, o + 1, c - 1), NEWLINE), o + 1>>

\* a returned block of two content lines that does not start the input
C2_Witness ==
    /\ pc = "returned"
    /\ \E o \in 2..Len(lines) :
           /\ o + 3 <= Len(lines)
           /\ IsPythonFenceLine(lines[o])
           /\ NoFenceBetween(lines, o + 1, o + 2)
           /\ IsFenceLine(lines[o + 3])
           /\ ~IsPythonFenceLine(lines[o + 3])
           /\ \E b \in 1..Len(code_blocks) : code_blocks[b][2] = o + 1

\* C8: from an unterminated python fence line on, no step of the scan and
\* not the return changes the list of blocks: the region yields no entry
\* and the blocks completed before it are returned as they were.
C8_UnterminatedYieldsNothing ==
    [][(\E o \in 1..Len(lines) : Unterminated(lines, o) /\ i >= o - 1)
           => (code_blocks' = code_blocks /\ pc' \in {"loop", "returned"})]_vars

\* a run that returned one block and dropped a later unterminated one
C8_Witness ==
    /\ pc = "returned"
    /\ Len(code_blocks) = 1
    /\ in_code_block
    /\ current_block # <<>>
    /\ \E o \in 1..Len(lines) : Unterminated(lines, o) /\ code_blocks[1][2] < o

\* C9 as stated: inside a watched block, every line whose stripped form
\* starts with three backticks, whatever follows them, ends the block and
\* appends one entry holding the lines since the open marker.
C9_AnyFenceLineTerminates ==
    [][(pc = "loop" /\ i < Len(lines) /\ in_code_block /\ IsFenceLine(lines[i + 1]))
           => /\ in_code_block' = FALSE
              /\ code_blocks' = Append(code_blocks,
                     <<Join(SubSeq(lines, LastPythonOpen(lines, i) + 1, i), NEWLINE),
                       LastPythonOpen(lines, i) + 1>>)]_vars

\* C9 amended: inside a watched block, a line whose stripped form starts
\* with three backticks but not with the python open marker ends the block
\* and appends one entry holding the lines since the last open marker; a
\* line that starts with the python open marker restarts the block instead
\* (flag kept, nothing appended, accumulator emptied).
C9_NonPythonFenceLineTerminates ==
    [][(pc = "loop" /\ i < Len(lines) /\ in_code_block /\ IsFenceLine(lines[i + 1]))
           => IF IsPythonFenceLine(lines[i + 1])
              THEN /\ in_code_block' = TRUE
                   /\ code_blocks' = code_blocks
                   /\ current_block' = <<>>
              ELSE /\ in_code_block' = FALSE
                   /\ code_blocks' = Append(code_blocks,
                          <<Join(SubSeq(lines, LastPythonOpen(lines, i) + 1, i), NEWLINE),
                            LastPythonOpen(lines, i) + 1>>)]_vars

\* a block closed by a four-backtick line, and a block restarted by a
\* second python fence line, in the same run
C9_Witness ==
    /\ i >= 5
    /\ IsPythonFenceLine(lines[i - 4])
    /\ lines[i - 3] = LINE_X
    /\ IsPythonFenceLine(lines[i - 2])
    /\ lines[i - 1] = LINE_Y
    /\ lines[i] = LINE_LONG
    /\ ~in_code_block
    /\ code_blocks = <<(<<LINE_Y, i - 1>>)>>

\* C10: the returned blocks have strictly increasing start lines between 2
\* and the number of input lines, and the line ranges of two blocks do not
\* overlap.
C10_BlocksOrderedDisjoint ==
    /\ \A b \in 1..Len(code_blocks) :
           /\ code_blocks[b][2] >= 2
           /\ code_blocks[b][2] <= Len(lines)
    /\ \A a \in 1..Len(code_blocks) : \A b \in (a + 1)..Len(code_blocks) :
           /\ code_blocks[a][2] < code_blocks[b][2]
           /\ \E n \in 0..Len(lines) :
                  /\ code_blocks[a][2] + n - 1 <= Len(lines)
                  /\ code_blocks[a][1] =
                         Join(SubSeq(lines, code_blocks[a][2], code_blocks[a][2] + n - 1),
                              NEWLINE)
                  /\ code_blocks[a][2] + n - 1 < code_blocks[b][2]

\* two blocks returned, the first with a content line
C10_Witness ==
    /\ pc = "returned"
    /\ Len(code_blocks) = 2
    /\ code_blocks[1][1] # <<>>

(***************************************************************************)
(* Vocabulary of the properties of the checker                             *)
(***************************************************************************)
\* the pyright run completed with a non-zero exit status
Failed(call) == call.result # <<>> /\ call.result[1] # 0

\* the pyright executable was not found
Missing(call) == call.result = <<>>

SomeCallMissing == \E k \in 1..Len(pyright_calls) : Missing(pyright_calls[k])

SomeCallFailed == \E k \in 1..Len(pyright_calls) : Failed(pyright_calls[k])

\* the positions, in markdown_file_paths, of the files with a failed run
FailedFiles == {pyright_calls[k].file : k \in {j \in 1..Len(pyright_calls) : Failed(pyright_calls[j])}}

\* the text holds one of the three watched module names
MentionsWatched(text) ==
    \E m \in {AUTOGEN_AGENTCHAT, AUTOGEN_CORE, AUTOGEN_EXT} : Contains(text, m)

Terminated == cpc \in {"returned", "raised"}

AggregateHeading == "Syntax errors found in the following files:"

\* the run ended in the aggregate error
AggregateFailure ==
    /\ cpc = "raised"
    /\ exception.type = "RuntimeError"
    /\ exception.message # <<>>
    /\ exception.message[1] = AggregateHeading

\* the aggregate error lists the path
Listed(path) == \E j \in 2..Len(exception.message) : exception.message[j] = path

InList(list, x) == \E j \in 1..Len(list) : list[j] = x

\* the paths at the positions of set, in input order
RECURSIVE PathsAt(_, _, _)
PathsAt(paths, set, n) ==
    IF n = 0 THEN <<>>
    ELSE IF n \in set THEN Append(PathsAt(paths, set, n - 1), paths[n])
    ELSE PathsAt(paths, set, n - 1)

\* <<file position, block position>> of the blocks of one file that mention
\* a watched module, in block order
RECURSIVE WatchedBlocksOf(_, _, _)
WatchedBlocksOf(f, blocks, n) ==
    IF n = 0 THEN <<>>
    ELSE IF MentionsWatched(blocks[n][1])
         THEN Append(WatchedBlocksOf(f, blocks, n - 1), <<f, n>>)
         ELSE WatchedBlocksOf(f, blocks, n - 1)

\* the same for the first n input files, in file order
RECURSIVE WatchedBlocksUpTo(_, _)
WatchedBlocksUpTo(paths, n) ==
    IF n = 0 THEN <<>>
    ELSE WatchedBlocksUpTo(paths, n - 1)
         \o WatchedBlocksOf(n, ExtractFromLines(ReadLines(paths[n])),
                            Len(ExtractFromLines(ReadLines(paths[n]))))

\* the blocks handed to pyright so far, in call order
CallPositions == [k \in 1..Len(pyright_calls) |-> <<pyright_calls[k].file, pyright_calls[k].block>>]

IsPrefix(a, b) == Len(a) <= Len(b) /\ SubSeq(b, 1, Len(a)) = a

\* C3 as stated: a non-zero exit status puts the file in the failure set
\* when its blocks are done, and the run ends in the aggregate error that
\* lists the file, whatever happens afterwards.
C3_FailureAlwaysReported ==
    \A k \in 1..Len(pyright_calls) :
        Failed(pyright_calls[k]) =>
            /\ file_idx > pyright_calls[k].file
                   => InList(files_with_errors, markdown_file_paths[pyright_calls[k].file])
            /\ Terminated
                   => (AggregateFailure /\ Listed(markdown_file_paths[pyright_calls[k].file]))

\* C3 amended: the same, unless a later pyright call of the run finds the
\* executable missing; the run then ends in the fatal error instead.
C3_FailureReportedUnlessMissing ==
    \A k \in 1..Len(pyright_calls) :
        Failed(pyright_calls[k]) =>
            /\ file_idx > pyright_calls[k].file
                   => InList(files_with_errors, markdown_file_paths[pyright_calls[k].file])
            /\ (Terminated /\ ~SomeCallMissing)
                   => (AggregateFailure /\ Listed(markdown_file_paths[pyright_calls[k].file]))

\* a failed block followed by a passing block of the same file and by a
\* passing file; the run ended in the aggregate error
C3_Witness ==
    /\ AggregateFailure
    /\ Len(pyright_calls) = 3
    /\ Failed(pyright_calls[1])
    /\ pyright_calls[2].file = pyright_calls[1].file
    /\ pyright_calls[2].result = <<0>>
    /\ pyright_calls[3].file > pyright_calls[1].file
    /\ pyright_calls[3].result = <<0>>
    /\ Listed(markdown_file_paths[pyright_calls[1].file])

\* C4: a missing executable is the last thing the run does: the fatal
\* error is raised, it is not the aggregate error, and no later block or
\* file is extracted or checked.
C4_MissingExecutableAborts ==
    \A k \in 1..Len(pyright_calls) :
        Missing(pyright_calls[k]) =>
            /\ k = Len(pyright_calls)
            /\ cpc = "raised"
            /\ exception = MissingError
            /\ ~AggregateFailure
            /\ file_idx = pyright_calls[k].file
            /\ block_idx = pyright_calls[k].block
            /\ Len(extracted) = pyright_calls[k].file
            /\ ~ENABLED NextCheck

\* the executable went missing on the last block of the first of two files,
\* after a failed block of that file
C4_Witness ==
    /\ Len(markdown_file_paths) = 2
    /\ Len(pyright_calls) = 2
    /\ Failed(pyright_calls[1])
    /\ Missing(pyright_calls[2])
    /\ pyright_calls[2].file = 1
    /\ block_idx < Len(file_blocks) + 1

\* C5: every text handed to pyright mentions a watched module; the error
\* flag is set only by a failed run on the current file, and a listed file
\* has a failed run.
C5_UnwatchedNeverChecked ==
    /\ \A k \in 1..Len(pyright_calls) :
           /\ MentionsWatched(pyright_calls[k].input)
           /\ pyright_calls[k].input =
                  ExtractFromLines(ReadLines(markdown_file_paths[pyright_calls[k].file]))
                      [pyright_calls[k].block][1]
    /\ (cpc = "blocks" /\ had_errors) => file_idx \in FailedFiles
    /\ \A j \in 1..Len(files_with_errors) :
           \E f \in FailedFiles : markdown_file_paths[f] = files_with_errors[j]

\* a run over a file whose only block mentions no watched module and a file
\* whose first block mentions none, ended without error
C5_Witness ==
    /\ cpc = "returned"
    /\ markdown_file_paths = <<"ignored.md", "two.md">>
    /\ CallPositions = <<(<<2, 2>>), (<<2, 3>>)>>

\* C6: when no call finds the executable missing, the blocks handed to
\* pyright are, in order, a prefix of the blocks that mention a watched
\* module (file order, then block order), and eventually all of them.
C6_AllWatchedBlocksChecked ==
    /\ [](IsPrefix(CallPositions,
                   WatchedBlocksUpTo(markdown_file_paths, Len(markdown_file_paths))))
    /\ <>(\/ SomeCallMissing
          \/ CallPositions =
                 WatchedBlocksUpTo(markdown_file_paths, Len(markdown_file_paths)))

\* every watched block of two files was checked although the first two failed
C6_Witness ==
    /\ Terminated
    /\ Len(pyright_calls) = 3
    /\ Failed(pyright_calls[1])
    /\ Failed(pyright_calls[2])
    /\ pyright_calls[3].file = 2
    /\ CallPositions = WatchedBlocksUpTo(markdown_file_paths, Len(markdown_file_paths))

\* C7: no outcome before the end; a run that ends without a missing
\* executable has gone through every file, raises the aggregate error
\* exactly when some pyright run failed, lists exactly the files with a
\* failed run, in input order, and otherwise returns without error.
C7_FinalOutcome ==
    /\ ~Terminated => exception = NoException
    /\ (Terminated /\ ~SomeCallMissing) =>
           /\ file_idx = Len(markdown_file_paths) + 1
           /\ Len(extracted) = Len(markdown_file_paths)
           /\ AggregateFailure <=> SomeCallFailed
           /\ IF SomeCallFailed
              THEN exception =
                       [type |-> "RuntimeError",
                        message |-> <<AggregateHeading>>
                            \o PathsAt(markdown_file_paths, FailedFiles,
                                       Len(markdown_file_paths))]
              ELSE cpc = "returned" /\ exception = NoException

\* two files, the first passes and the second fails: only the second is listed
C7_Witness ==
    /\ AggregateFailure
    /\ markdown_file_paths = <<"two.md", "one.md">>
    /\ Len(pyright_calls) = 3
    /\ FailedFiles = {2}
    /\ exception.message = <<AggregateHeading, "one.md">>

====
